---- MODULE Spec2Model ----
(***************************************************************************)
(* Model of the DataCleaner toolkit (src/src/data_cleaner.py).             *)
(*                                                                         *)
(* Text is a sequence of code points, so that trimming, case folding,      *)
(* digit extraction, prefix removal and the cipher's modular shift are     *)
(* computed character by character as the Python code computes them.       *)
(* A cell value is one of                                                  *)
(*     [k |-> "none"]                      None / NaN (pd.isna is true)    *)
(*     [k |-> "str",   s |-> <<codes>>]    a str                           *)
(*     [k |-> "float", d |-> digits, p |-> point]  a non-negative float,   *)
(*                      value 0.d1d2.. * 10^p, d without leading/trailing  *)
(*                      zeros (<<>> is 0.0)                                *)
(*     [k |-> "int",   n |-> Nat]          an int                          *)
(* and the outcome of a per-value function is a cell value or              *)
(*     [k |-> "raise", exc |-> name]       the exception it raises.        *)
(* Floats are decimal: float(), "/ 100" and "* 10 ** exp" are computed     *)
(* exactly and printed as repr prints the shortest decimal.  This agrees   *)
(* with the binary doubles of the code on every application of a per-value *)
(* function that the two specifications below reach with the bounds as     *)
(* written (each was compared with the Python function).  On longer        *)
(* chains the code's "/ 100" can differ from the exact quotient in the     *)
(* 17th significant digit (1.1 / 100 is 0.011000000000000001).             *)
(***************************************************************************)
EXTENDS Integers, Sequences, FiniteSets, TLC

\* ------------------------------------------------------------------ text

\* "".join(parts)
RECURSIVE Concat(_)
Concat(parts) ==
    IF parts = <<>> THEN <<>> ELSE Head(parts) \o Concat(Tail(parts))

\* str.isdigit, ASCII
IsDigit(c) == c >= 48 /\ c <= 57

\* str.isspace, ASCII: \t \n \v \f \r, FS GS RS US, space
IsSpace(c) == (c >= 9 /\ c <= 13) \/ (c >= 28 /\ c <= 32)

\* str.lower / str.upper of one ASCII character
LowerChar(c) == IF c >= 65 /\ c <= 90 THEN c + 32 ELSE c
UpperChar(c) == IF c >= 97 /\ c <= 122 THEN c - 32 ELSE c

Lower(s) == [i \in 1..Len(s) |-> LowerChar(s[i])]
Upper(s) == [i \in 1..Len(s) |-> UpperChar(s[i])]

RECURSIVE LStrip(_)
LStrip(s) ==
    IF s # <<>> /\ IsSpace(Head(s)) THEN LStrip(Tail(s)) ELSE s

RECURSIVE RStrip(_)
RStrip(s) ==
    IF s # <<>> /\ IsSpace(s[Len(s)]) THEN RStrip(SubSeq(s, 1, Len(s) - 1)) ELSE s

\* str.strip()
Strip(s) == RStrip(LStrip(s))

\* str.rstrip('/')
RECURSIVE RStripSlash(_)
RStripSlash(s) ==
    IF s # <<>> /\ s[Len(s)] = 47 THEN RStripSlash(SubSeq(s, 1, Len(s) - 1)) ELSE s

\* s.startswith(prefix)
StartsWith(s, prefix) ==
    Len(s) >= Len(prefix) /\ SubSeq(s, 1, Len(prefix)) = prefix

\* s.endswith(suffix)
EndsWith(s, suffix) ==
    Len(s) >= Len(suffix) /\ SubSeq(s, Len(s) - Len(suffix) + 1, Len(s)) = suffix

\* s[n:]
Drop(s, n) == SubSeq(s, n + 1, Len(s))

\* c in s
Contains(s, c) == \E i \in 1..Len(s) : s[i] = c

\* s.count(c)
RECURSIVE Count(_, _)
Count(s, c) ==
    IF s = <<>> THEN 0
    ELSE (IF Head(s) = c THEN 1 ELSE 0) + Count(Tail(s), c)

\* s.replace(old, ''): every non-overlapping occurrence, left to right
RECURSIVE RemoveAll(_, _)
RemoveAll(s, old) ==
    IF s = <<>> \/ old = <<>> THEN s
    ELSE IF StartsWith(s, old) THEN RemoveAll(Drop(s, Len(old)), old)
    ELSE <<Head(s)>> \o RemoveAll(Tail(s), old)

\* ---------------------------------------------------------------- values

NoneV == [k |-> "none"]
StrV(s) == [k |-> "str", s |-> s]
IntV(n) == [k |-> "int", n |-> n]
Raise(exc) == [k |-> "raise", exc |-> exc]

\* pd.isna(value)
IsNa(v) == v.k = "none"

Raises(o) == o.k = "raise"

RECURSIVE StripLeadingZeros(_)
StripLeadingZeros(d) ==
    IF d # <<>> /\ Head(d) = 0 THEN StripLeadingZeros(Tail(d)) ELSE d

RECURSIVE StripTrailingZeros(_)
StripTrailingZeros(d) ==
    IF d # <<>> /\ d[Len(d)] = 0
    THEN StripTrailingZeros(SubSeq(d, 1, Len(d) - 1)) ELSE d

\* the float 0.d * 10^p, normalised
FloatV(d, p) ==
    LET lead == StripLeadingZeros(d)
        sig  == StripTrailingZeros(lead)
    IN  IF sig = <<>> THEN [k |-> "float", d |-> <<>>, p |-> 0]
        ELSE [k |-> "float", d |-> sig, p |-> p - (Len(d) - Len(lead))]

Zeros(n) == [i \in 1..n |-> 48]
DigitChars(d) == [i \in 1..Len(d) |-> d[i] + 48]

\* str(n) of a non-negative int
RECURSIVE NatStr(_)
NatStr(n) ==
    IF n < 10 THEN <<n + 48>> ELSE NatStr(n \div 10) \o <<(n % 10) + 48>>

\* str(x) of a float: repr, fixed notation for -4 <= exponent < 16, else
\* scientific with a sign and at least two exponent digits
FloatStr(f) ==
    LET d == f.d
        p == f.p
        x == p - 1
        ax == IF x < 0 THEN 0 - x ELSE x
    IN  IF d = <<>> THEN <<48, 46, 48>>
        ELSE IF x >= -4 /\ x < 16
        THEN IF p <= 0 THEN <<48, 46>> \o Zeros(0 - p) \o DigitChars(d)
             ELSE IF p >= Len(d)
             THEN DigitChars(d) \o Zeros(p - Len(d)) \o <<46, 48>>
             ELSE DigitChars(SubSeq(d, 1, p)) \o <<46>>
                  \o DigitChars(SubSeq(d, p + 1, Len(d)))
        ELSE <<d[1] + 48>>
             \o (IF Len(d) > 1 THEN <<46>> \o DigitChars(Tail(d)) ELSE <<>>)
             \o <<101>> \o (IF x < 0 THEN <<45>> ELSE <<43>>)
             \o (IF ax < 10 THEN <<48>> ELSE <<>>) \o NatStr(ax)

\* str(value) of a value that is not None
Str(v) ==
    CASE v.k = "str" -> v.s
      [] v.k = "float" -> FloatStr(v)
      [] v.k = "int" -> NatStr(v.n)

IsDigitOrDot(c) == IsDigit(c) \/ c = 46
IsDigitOrMinus(c) == IsDigit(c) \/ c = 45

\* float(s) of a string of digits and '.': ValueError unless it holds at
\* least one digit and at most one '.'
FloatOfDigitsDots(s) ==
    LET digits == SelectSeq(s, IsDigit)
        dot == CHOOSE i \in 1..Len(s) : s[i] = 46
        whole == IF Contains(s, 46) THEN dot - 1 ELSE Len(s)
    IN  IF Count(s, 46) > 1 \/ digits = <<>> THEN Raise("ValueError")
        ELSE FloatV([i \in 1..Len(digits) |-> digits[i] - 48], whole)

RECURSIVE DigitsToNat(_)
DigitsToNat(d) ==
    IF d = <<>> THEN 0 ELSE 10 * DigitsToNat(SubSeq(d, 1, Len(d) - 1)) + d[Len(d)]

\* float(s) of a string of digits and '-', as an exponent: ValueError unless
\* it is digits with at most one leading '-'. big: more than three
\* significant digits.
ExponentOfDigitsMinus(s) ==
    LET neg == s # <<>> /\ Head(s) = 45
        body == IF neg THEN Tail(s) ELSE s
        mag == StripLeadingZeros([i \in 1..Len(body) |-> body[i] - 48])
    IN  IF body = <<>> \/ Contains(body, 45) THEN Raise("ValueError")
        ELSE [k |-> "exp", neg |-> neg, big |-> Len(mag) > 3,
              n |-> IF Len(mag) > 3 THEN 0 ELSE DigitsToNat(mag)]

\* x / 100
DivHundred(f) == IF f.d = <<>> THEN f ELSE [f EXCEPT !.p = f.p - 2]

\* base * (10 ** exp): 10 ** exp raises OverflowError from 10 ** 309.0 on
\* and underflows to 0.0 for large negative exponents
MaxDoubleExp == 308
MinDoubleExp == 324
TimesTenTo(base, exp) ==
    IF ~exp.neg /\ (exp.big \/ exp.n > MaxDoubleExp) THEN Raise("OverflowError")
    ELSE IF exp.neg /\ (exp.big \/ exp.n >= MinDoubleExp) THEN FloatV(<<>>, 0)
    ELSE IF base.d = <<>> THEN base
    ELSE [base EXCEPT !.p = base.p + (IF exp.neg THEN 0 - exp.n ELSE exp.n)]

\* --------------------------------------------------------------- parsers

\* DataCleaner.__init__: self.roman_values
roman_values ==
    (73 :> 1) @@ (86 :> 5) @@ (88 :> 10) @@ (76 :> 50) @@ (67 :> 100)
    @@ (68 :> 500) @@ (77 :> 1000)

\* DataCleaner.__init__: self.url_prefixes = ['http://', 'https://', 'www.']
url_prefixes ==
    << <<104, 116, 116, 112, 58, 47, 47>>,
       <<104, 116, 116, 112, 115, 58, 47, 47>>,
       <<119, 119, 119, 46>> >>

\* clean_phone_numbers: min_digits: int = 9
min_digits == 9

\* clean_phone with the first character cut off by position (cleaned[1:], a
\* "+" assumed in front) instead of by the digit filter
clean_phone_cut_first(phone) ==
    IF IsNa(phone) THEN NoneV
    ELSE LET cleaned == Tail(SelectSeq(Str(phone), IsDigit) \o <<48>>)
         IN  IF Len(cleaned) >= min_digits
             THEN StrV(SubSeq(cleaned, 1, Len(cleaned) - 1)) ELSE NoneV

\* clean_phone_numbers.clean_phone
clean_phone(phone) ==
    IF IsNa(phone) THEN NoneV
    ELSE LET cleaned == SelectSeq(Str(phone), IsDigit)
         IN  IF Len(cleaned) >= min_digits THEN StrV(cleaned) ELSE NoneV

\* clean_monetary_values.clean_amount: float(cleaned) is not guarded
clean_amount(value) ==
    IF IsNa(value) THEN NoneV
    ELSE LET cleaned == SelectSeq(Str(value), IsDigitOrDot)
         IN  IF cleaned # <<>> THEN FloatOfDigitsDots(cleaned) ELSE NoneV

\* clean_percentages.clean_percentage: float(cleaned)/100 is not guarded
clean_percentage(value) ==
    IF IsNa(value) THEN NoneV
    ELSE LET cleaned == SelectSeq(Str(value), IsDigitOrDot)
             parsed == FloatOfDigitsDots(cleaned)
         IN  IF cleaned # <<>>
             THEN (IF Raises(parsed) THEN parsed ELSE DivHundred(parsed))
             ELSE NoneV

\* clean_emails.clean_email
clean_email(email) ==
    IF IsNa(email) THEN NoneV
    ELSE LET cleaned == Lower(Strip(Str(email)))
         IN  IF Contains(cleaned, 64) THEN StrV(cleaned) ELSE NoneV

\* the prefix loop with a break after the first prefix removed
RECURSIVE RemoveFirstPrefix(_, _, _)
RemoveFirstPrefix(cleaned, removed, i) ==
    IF i > Len(url_prefixes) THEN [text |-> cleaned, removed |-> removed]
    ELSE IF StartsWith(cleaned, url_prefixes[i])
    THEN [text |-> Drop(cleaned, Len(url_prefixes[i])), removed |-> Append(removed, i)]
    ELSE RemoveFirstPrefix(cleaned, removed, i + 1)

\* clean_urls.clean_url, the loop "for prefix in self.url_prefixes" from
\* prefix number i on: the text left, and the numbers of the prefixes removed
RECURSIVE RemovePrefixes(_, _, _)
RemovePrefixes(cleaned, removed, i) ==
    IF i > Len(url_prefixes) THEN [text |-> cleaned, removed |-> removed]
    ELSE IF StartsWith(cleaned, url_prefixes[i])
    THEN RemovePrefixes(Drop(cleaned, Len(url_prefixes[i])), Append(removed, i), i + 1)
    ELSE RemovePrefixes(cleaned, removed, i + 1)

\* clean_urls.clean_url, up to the return statement
UrlPrefixLoop(url) == RemovePrefixes(Lower(Strip(Str(url))), <<>>, 1)

\* clean_urls.clean_url
clean_url(url) ==
    IF IsNa(url) THEN NoneV
    ELSE LET cleaned == UrlPrefixLoop(url).text
         IN  IF cleaned # <<>> THEN StrV(RStripSlash(cleaned)) ELSE NoneV

\* clean_scientific_notation.clean_scientific: the 'e' branch catches every
\* exception, the plain branch does not guard float(cleaned)
clean_scientific(value) ==
    IF IsNa(value) THEN NoneV
    ELSE LET str_val == Lower(Str(value))
             at == CHOOSE i \in 1..Len(str_val) : str_val[i] = 101
             base == FloatOfDigitsDots(
                         SelectSeq(SubSeq(str_val, 1, at - 1), IsDigitOrDot))
             exp == ExponentOfDigitsMinus(
                         SelectSeq(Drop(str_val, at), IsDigitOrMinus))
             cleaned == SelectSeq(str_val, IsDigitOrDot)
         IN  IF Contains(str_val, 101)
             THEN IF Count(str_val, 101) > 1 \/ Raises(base) \/ Raises(exp)
                  THEN NoneV
                  ELSE (IF Raises(TimesTenTo(base, exp)) THEN NoneV
                        ELSE TimesTenTo(base, exp))
             ELSE IF cleaned # <<>> THEN FloatOfDigitsDots(cleaned) ELSE NoneV

\* clean_roman_numerals.clean_roman, the loop "for i in range(len(roman))"
RECURSIVE RomanSum(_, _)
RomanSum(roman, i) ==
    IF i > Len(roman) THEN 0
    ELSE (IF i + 1 <= Len(roman)
             /\ roman_values[roman[i]] < roman_values[roman[i + 1]]
          THEN 0 - roman_values[roman[i]]
          ELSE roman_values[roman[i]])
         + RomanSum(roman, i + 1)

\* clean_roman_numerals.clean_roman
clean_roman(roman_str) ==
    IF IsNa(roman_str) THEN NoneV
    ELSE LET roman == Upper(Strip(Str(roman_str)))
         IN  IF ~(\A i \in 1..Len(roman) : roman[i] \in DOMAIN roman_values)
             THEN NoneV
             ELSE IntV(RomanSum(roman, 1))

\* ---------------------------------------------------------------- cipher

\* the cipher's symbol range: chr((ord(char) +- numeric_key) % 128)
CipherMod == 128

\* numeric_key = sum(ord(c) for c in code_name)
RECURSIVE NumericKey(_)
NumericKey(code_name) ==
    IF code_name = <<>> THEN 0 ELSE Head(code_name) + NumericKey(Tail(code_name))

\* DataCleaner._encrypt_value
EncryptValue(value, code_name) ==
    IF IsNa(value) THEN NoneV
    ELSE LET text == Str(value)
         IN  StrV([i \in 1..Len(text) |->
                      (text[i] + NumericKey(code_name)) % CipherMod])

\* _decrypt_value shifting up as _encrypt_value does
DecryptValueShiftUp(value, code_name) ==
    IF IsNa(value) THEN NoneV
    ELSE LET text == Str(value)
         IN  StrV([i \in 1..Len(text) |->
                      (text[i] + NumericKey(code_name)) % CipherMod])

\* DataCleaner._decrypt_value
DecryptValue(value, code_name) ==
    IF IsNa(value) THEN NoneV
    ELSE LET text == Str(value)
         IN  StrV([i \in 1..Len(text) |->
                      (text[i] - NumericKey(code_name)) % CipherMod])

\* the per-value function a public operation hands to the column engine
ApplyFn(fn, value, code_name) ==
    CASE fn = "clean_phone" -> clean_phone(value)
      [] fn = "clean_amount" -> clean_amount(value)
      [] fn = "clean_percentage" -> clean_percentage(value)
      [] fn = "clean_email" -> clean_email(value)
      [] fn = "clean_url" -> clean_url(value)
      [] fn = "clean_scientific" -> clean_scientific(value)
      [] fn = "clean_roman" -> clean_roman(value)
      [] fn = "encrypt" -> EncryptValue(value, code_name)
      [] fn = "decrypt" -> DecryptValue(value, code_name)

\* ----------------------------------------------------- bounds and inputs

\* longest chain of per-value applications on one value
MaxApply == 2
\* most parts concatenated into one URL-like input
MaxParts == 3
\* longest generated cipher text
MaxText == 2

\* docstring and specification examples, and malformed inputs
SampleTexts ==
    { <<43, 49, 32, 40, 50, 51, 52, 41, 32, 53, 54, 55, 45, 56, 57, 48, 49>>,
                                                  \* "+1 (234) 567-8901"
      <<49, 50, 51, 45, 52, 53, 54>>,             \* "123-456"
      <<36, 49, 50, 51, 46, 52, 53>>,             \* "$123.45"
      <<49, 44, 50, 51, 52>>,                     \* "1,234"
      <<102, 114, 101, 101>>,                     \* "free"
      <<53, 48, 37>>,                             \* "50%"
      <<49, 46, 50, 46, 51>>,                     \* "1.2.3"
      <<46>>,                                     \* "."
      <<85, 115, 101, 114, 64, 69, 120, 46, 99, 111, 109, 32>>,
                                                  \* "User@Ex.com "
      <<105, 110, 118, 97, 108, 105, 100>>,       \* "invalid"
      <<49, 46, 50, 51, 101, 45, 52>>,            \* "1.23e-4"
      <<49, 101, 51>>,                            \* "1e3"
      <<49, 101>>,                                \* "1e"
      <<49, 101, 52, 48, 48>>,                    \* "1e400"
      <<73, 86>>,                                 \* "IV"
      <<88, 73, 73>>,                             \* "XII"
      <<65, 66, 67>>,                             \* "ABC"
      <<32, 105, 105, 105, 105, 32>>,             \* " iiii "
      <<48, 46, 48, 48, 49>>,                     \* "0.001"
      <<>> }                                      \* ""

\* the pieces URL-like inputs are built from
UrlParts ==
    { <<104, 116, 116, 112, 58, 47, 47>>,         \* "http://"
      <<72, 84, 84, 80, 83, 58, 47, 47>>,         \* "HTTPS://"
      <<119, 119, 119, 46>>,                      \* "www."
      <<47>>,                                     \* "/"
      <<32>>,                                     \* " "
      <<101, 120, 46, 99, 111, 109>> }            \* "ex.com"

RECURSIVE UrlTexts(_)
UrlTexts(n) ==
    IF n = 0 THEN {<<>>}
    ELSE UrlTexts(n - 1) \cup {s \o part : s \in UrlTexts(n - 1), part \in UrlParts}

\* printable-ASCII characters at and between the ends of the range
CipherChars == {32, 48, 65, 97, 126}

RECURSIVE CipherTexts(_)
CipherTexts(n) ==
    IF n = 0 THEN {<<>>}
    ELSE CipherTexts(n - 1) \cup {Append(s, c) : s \in CipherTexts(n - 1), c \in CipherChars}

\* cipher keys: "", "k", "key", DEL, U+0080, U+00E9
Keys == { <<>>, <<107>>, <<107, 101, 121>>, <<127>>, <<128>>, <<233>> }

InputValues ==
    {NoneV} \cup {StrV(s) : s \in SampleTexts \cup UrlTexts(MaxParts) \cup CipherTexts(MaxText)}

\* ---------------------------------------------------------------- tables

(***************************************************************************)
(* A DataFrame is [k |-> "table", cols |-> <<[name, vals], ...>>]: its     *)
(* columns in order, with distinct names and one value per row each.  Any  *)
(* other object passed where a DataFrame is expected is NotATable, an      *)
(* object with none of a DataFrame's attributes (such as None).  A column  *)
(* selector is [k |-> "list" or "tuple", items |-> <<names>>].             *)
(***************************************************************************)
NotATable == [k |-> "other"]
NoReturn == [k |-> "noreturn"]
Table(cols) == [k |-> "table", cols |-> cols]
ListOf(items) == [k |-> "list", items |-> items]
TupleOf(items) == [k |-> "tuple", items |-> items]

\* "_encrypted"
EncryptedSuffix == <<95, 101, 110, 99, 114, 121, 112, 116, 101, 100>>

\* df.columns
Columns(df) == [i \in 1..Len(df.cols) |-> df.cols[i].name]

\* col in df.columns
HasColumn(df, col) == \E i \in 1..Len(df.cols) : df.cols[i].name = col

\* df[col]
GetColumn(df, col) ==
    df.cols[CHOOSE i \in 1..Len(df.cols) : df.cols[i].name = col].vals

\* df[col] = vals: in place when the column exists, else a new last column
SetColumn(df, col, vals) ==
    IF HasColumn(df, col)
    THEN Table([i \in 1..Len(df.cols) |->
                   IF df.cols[i].name = col
                   THEN [name |-> col, vals |-> vals] ELSE df.cols[i]])
    ELSE Table(Append(df.cols, [name |-> col, vals |-> vals]))

\* df.drop(col, axis=1)
DropColumn(df, col) ==
    LET Keep(c) == c.name # col
    IN  Table(SelectSeq(df.cols, Keep))

\* the operation working on the caller's own object (no df.copy())
DfShare(df) == [df |-> df, shared |-> TRUE]

\* df.copy(): the frame the operation works on, and whether it is the
\* caller's own object
DfCopy(df) == [df |-> df, shared |-> FALSE]

\* series.apply on series.dropna(): rows whose outcome is None are lost
SeriesOutcomeDropNa(outs) ==
    LET Present(o) == ~IsNa(o)
    IN  IF \E i \in 1..Len(outs) : Raises(outs[i])
        THEN [raised |-> "ValueError", vals |-> <<>>]
        ELSE [raised |-> "none", vals |-> SelectSeq(outs, Present)]

\* series.apply: the outcomes of fn in row order, or the first exception raised
SeriesOutcome(outs) ==
    IF \E i \in 1..Len(outs) : Raises(outs[i])
    THEN [raised |-> outs[CHOOSE i \in 1..Len(outs) :
                             /\ Raises(outs[i])
                             /\ \A j \in 1..(i - 1) : ~Raises(outs[j])].exc,
          vals |-> <<>>]
    ELSE [raised |-> "none", vals |-> outs]

\* series.apply(fn): fn on every value in row order; an exception raised for
\* one value leaves apply
SeriesApply(vals, fn, code_name) ==
    SeriesOutcome([i \in 1..Len(vals) |-> ApplyFn(fn, vals[i], code_name)])

\* DataCleaner._validate_inputs: the exception it raises, or "none"
ValidateInputs(df, col_names) ==
    IF df.k # "table" THEN "TypeError"
    ELSE IF col_names.k # "list" THEN "TypeError"
    ELSE IF col_names.items = <<>> THEN "ValueError"
    ELSE "none"

\* print(...): a message is [kind |-> "not_found" or "error", col |-> name]
Printed(st, kind, col) ==
    [st EXCEPT !.log = Append(st.log, [kind |-> kind, col |-> col])]

\* DataCleaner._process_columns: "df[col] = ..." when apply returned, the
\* handler "except Exception" when it raised
AssignOrReport(st, col, out) ==
    IF out.raised # "none" THEN Printed(st, "error", col)
    ELSE [st EXCEPT !.df = SetColumn(st.df, col, out.vals)]

\* DataCleaner._process_columns, the body of "for col in col_names", on the
\* working frame and the messages printed so far, st = [df, log]
ProcessColumn(st, col, fn) ==
    IF ~HasColumn(st.df, col) THEN Printed(st, "not_found", col)
    ELSE AssignOrReport(st, col, SeriesApply(GetColumn(st.df, col), fn, <<>>))

\* the loop with "break" in place of "continue" for a column not found
RECURSIVE ProcessLoopBreak(_, _, _)
ProcessLoopBreak(st, items, fn) ==
    IF items = <<>> THEN st
    ELSE IF ~HasColumn(st.df, Head(items)) THEN ProcessColumn(st, Head(items), fn)
    ELSE ProcessLoopBreak(ProcessColumn(st, Head(items), fn), Tail(items), fn)

\* DataCleaner._process_columns, the loop "for col in col_names"
RECURSIVE ProcessLoop(_, _, _)
ProcessLoop(st, items, fn) ==
    IF items = <<>> THEN st
    ELSE ProcessLoop(ProcessColumn(st, Head(items), fn), Tail(items), fn)

\* the outcome of a call: the exception raised or "none", the table
\* returned, the caller's table after the call, the messages printed
Outcome(raised, ret, caller, log) ==
    [raised |-> raised, ret |-> ret, caller |-> caller, log |-> log]

\* "return df": the working frame is returned; the caller's table is the
\* working frame when the two are one object
ReturnFrame(df, frame, st) ==
    Outcome("none", st.df, IF frame.shared THEN st.df ELSE df, st.log)

\* DataCleaner._process_columns after _validate_inputs
ProcessCopy(df, frame, items, fn) ==
    ReturnFrame(df, frame, ProcessLoop([df |-> frame.df, log |-> <<>>], items, fn))

\* DataCleaner._process_columns
ProcessColumns(df, col_names, fn) ==
    IF ValidateInputs(df, col_names) # "none"
    THEN Outcome(ValidateInputs(df, col_names), NoReturn, df, <<>>)
    ELSE ProcessCopy(df, DfCopy(df), col_names.items, fn)

\* encrypt_columns / decrypt_columns: "df[new_col] = ..." and
\* "df = df.drop(col, axis=1)"
AssignAndDrop(st, col, new_col, vals) ==
    [st EXCEPT !.df = DropColumn(SetColumn(st.df, new_col, vals), col)]

\* DataCleaner.encrypt_columns, the body of "for col in col_names"
EncryptColumn(st, col, code_name) ==
    IF ~HasColumn(st.df, col) THEN Printed(st, "not_found", col)
    ELSE AssignAndDrop(st, col, col \o EncryptedSuffix,
             SeriesApply(GetColumn(st.df, col), "encrypt", code_name).vals)

\* DataCleaner.decrypt_columns, the body of "for col in col_names"
DecryptColumn(st, col, code_name) ==
    IF ~HasColumn(st.df, col) THEN Printed(st, "not_found", col)
    ELSE AssignAndDrop(st, col, RemoveAll(col, EncryptedSuffix),
             SeriesApply(GetColumn(st.df, col), "decrypt", code_name).vals)

RECURSIVE EncryptLoop(_, _, _)
EncryptLoop(st, items, code_name) ==
    IF items = <<>> THEN st
    ELSE EncryptLoop(EncryptColumn(st, Head(items), code_name), Tail(items), code_name)

RECURSIVE DecryptLoop(_, _, _)
DecryptLoop(st, items, code_name) ==
    IF items = <<>> THEN st
    ELSE DecryptLoop(DecryptColumn(st, Head(items), code_name), Tail(items), code_name)

EncryptCopy(df, frame, items, code_name) ==
    ReturnFrame(df, frame, EncryptLoop([df |-> frame.df, log |-> <<>>], items, code_name))

DecryptCopy(df, frame, items, code_name) ==
    ReturnFrame(df, frame, DecryptLoop([df |-> frame.df, log |-> <<>>], items, code_name))

\* DataCleaner.encrypt_columns: no call of _validate_inputs; df.copy() on an
\* object that is no DataFrame raises AttributeError, and any sequence of
\* names is iterated
encrypt_columns(df, col_names, code_name) ==
    IF df.k # "table" THEN Outcome("AttributeError", NoReturn, df, <<>>)
    ELSE EncryptCopy(df, DfCopy(df), col_names.items, code_name)

\* DataCleaner.decrypt_columns: as encrypt_columns
decrypt_columns(df, col_names, code_name) ==
    IF df.k # "table" THEN Outcome("AttributeError", NoReturn, df, <<>>)
    ELSE DecryptCopy(df, DfCopy(df), col_names.items, code_name)

\* ------------------------------------------------- table-level bounds

\* most calls made in a row, each on the table the call before returned
MaxCalls == 2
\* most rows of a table
MaxRows == 2
\* most names in a list selector
MaxSel == 2
\* most names in a selector that is not a list
MaxTupleLen == 1

\* column names: "p", and "s_encrypted" (a column encrypted earlier)
InitialNames == << <<112>>, <<115>> \o EncryptedSuffix >>
\* names no initial table has: "y", "z"
OtherNames == { <<121>>, <<122>> }

\* rows an initial table is made of: the cells of its two columns
SampleRows ==
    { << StrV(<<43, 49, 32, 40, 50, 51, 52, 41, 32, 53, 54, 55, 45, 56, 57, 48, 49>>),
         StrV(<<36, 49, 50, 51, 46, 52, 53>>) >>,  \* "+1 (234) 567-8901", "$123.45"
      << StrV(<<85, 115, 101, 114, 64, 69, 120, 46, 99, 111, 109, 32>>),
         StrV(<<49, 46, 50, 46, 51>>) >>,          \* "User@Ex.com ", "1.2.3"
      << NoneV, StrV(<<53, 48, 37>>) >> }          \* None, "50%"

\* the key of the table-level cipher calls: "k"
TableKey == <<107>>

RECURSIVE SeqsUpTo(_, _)
SeqsUpTo(S, n) ==
    IF n = 0 THEN {<<>>}
    ELSE SeqsUpTo(S, n - 1) \cup {Append(s, x) : s \in SeqsUpTo(S, n - 1), x \in S}

TableOfRows(rows) ==
    Table([c \in 1..Len(InitialNames) |->
              [name |-> InitialNames[c],
               vals |-> [r \in 1..Len(rows) |-> rows[r][c]]]])

InitialTables == {TableOfRows(rows) : rows \in SeqsUpTo(SampleRows, MaxRows) \ {<<>>}}

ColumnSet(df) == {df.cols[i].name : i \in 1..Len(df.cols)}

\* what a caller may pass: its table with a list of names, its table with a
\* tuple of names, or an object that is no table
Arguments(df) ==
    {[table |-> df, sel |-> ListOf(s)] :
        s \in SeqsUpTo(ColumnSet(df) \cup OtherNames, MaxSel)}
    \cup {[table |-> df, sel |-> TupleOf(s)] : s \in SeqsUpTo(ColumnSet(df), MaxTupleLen)}
    \cup {[table |-> NotATable, sel |-> ListOf(s)] : s \in SeqsUpTo({InitialNames[1]}, 1)}

\* ------------------------------------------------------------- variables

VARIABLES
    original, \* the table the caller started from
    df,       \* the table the caller holds now: the last one returned
    call,     \* the last call: [op, fn, table, sel, key, out]
    ncalls,   \* calls made so far
    v0,       \* a value, as found in a cell
    trail     \* the per-value functions applied to v0 so far, in order:
              \* [fn, key, in, out, removed]

tvars == <<original, df, call, ncalls>>
vvars == <<v0, trail>>
vars == <<original, df, call, ncalls, v0, trail>>

NoCall == [op |-> "none"]

\* ------------------------------------------------- the public operations

\* the caller keeps the table a call returns; a call that raises leaves it
\* with the table it had
Called(op, fn, a, key, out) ==
    /\ call' = [op |-> op, fn |-> fn, table |-> a.table, sel |-> a.sel,
                key |-> key, out |-> out]
    /\ df' = IF out.raised = "none" THEN out.ret ELSE df
    /\ ncalls' = ncalls + 1
    /\ UNCHANGED <<original, v0, trail>>

CleanCall(op, fn) ==
    /\ ncalls < MaxCalls
    /\ \E a \in Arguments(df) :
          Called(op, fn, a, <<>>, ProcessColumns(a.table, a.sel, fn))

clean_phone_numbers == CleanCall("clean_phone_numbers", "clean_phone")
clean_monetary_values == CleanCall("clean_monetary_values", "clean_amount")
clean_percentages == CleanCall("clean_percentages", "clean_percentage")
clean_emails == CleanCall("clean_emails", "clean_email")
clean_urls == CleanCall("clean_urls", "clean_url")
clean_scientific_notation == CleanCall("clean_scientific_notation", "clean_scientific")
clean_roman_numerals == CleanCall("clean_roman_numerals", "clean_roman")

EncryptColumns ==
    /\ ncalls < MaxCalls
    /\ \E a \in Arguments(df) :
          Called("encrypt_columns", "encrypt", a, TableKey,
                 encrypt_columns(a.table, a.sel, TableKey))

DecryptColumns ==
    /\ ncalls < MaxCalls
    /\ \E a \in Arguments(df) :
          Called("decrypt_columns", "decrypt", a, TableKey,
                 decrypt_columns(a.table, a.sel, TableKey))

Init ==
    /\ original \in InitialTables
    /\ df = original
    /\ call = NoCall
    /\ ncalls = 0
    /\ v0 = NoneV
    /\ trail = <<>>

Next ==
    \/ clean_phone_numbers
    \/ clean_monetary_values
    \/ clean_percentages
    \/ clean_emails
    \/ clean_urls
    \/ clean_scientific_notation
    \/ clean_roman_numerals
    \/ EncryptColumns
    \/ DecryptColumns

Spec == Init /\ [][Next]_vars

\* ------------------------------------------- the per-value functions

\* the value the next function is applied to: the last outcome
Current == IF trail = <<>> THEN v0 ELSE trail[Len(trail)].out

CanApply == Len(trail) < MaxApply /\ ~Raises(Current)

Applied(fn, key) ==
    [fn |-> fn, key |-> key, in |-> Current, out |-> ApplyFn(fn, Current, key),
     removed |-> IF fn = "clean_url" /\ ~IsNa(Current)
                 THEN UrlPrefixLoop(Current).removed ELSE <<>>]

ParseValue(fn) ==
    /\ CanApply
    /\ trail' = Append(trail, Applied(fn, <<>>))
    /\ UNCHANGED <<v0, original, df, call, ncalls>>

ParsePhone == ParseValue("clean_phone")
ParseAmount == ParseValue("clean_amount")
ParsePercentage == ParseValue("clean_percentage")
ParseEmail == ParseValue("clean_email")
ParseUrl == ParseValue("clean_url")
ParseScientific == ParseValue("clean_scientific")
ParseRoman == ParseValue("clean_roman")

Encrypt ==
    /\ CanApply
    /\ \E key \in Keys : trail' = Append(trail, Applied("encrypt", key))
    /\ UNCHANGED <<v0, original, df, call, ncalls>>

Decrypt ==
    /\ CanApply
    /\ \E key \in Keys : trail' = Append(trail, Applied("decrypt", key))
    /\ UNCHANGED <<v0, original, df, call, ncalls>>

ValueInit ==
    /\ v0 \in InputValues
    /\ trail = <<>>
    /\ original = Table(<<>>)
    /\ df = original
    /\ call = NoCall
    /\ ncalls = 0

ValueNext ==
    \/ ParsePhone
    \/ ParseAmount
    \/ ParsePercentage
    \/ ParseEmail
    \/ ParseUrl
    \/ ParseScientific
    \/ ParseRoman
    \/ Encrypt
    \/ Decrypt

ValueSpec == ValueInit /\ [][ValueNext]_vars

\* ---------------------------------------------------------------- claims

CleanOps ==
    { "clean_phone_numbers", "clean_monetary_values", "clean_percentages",
      "clean_emails", "clean_urls", "clean_scientific_notation",
      "clean_roman_numerals" }

IsCleanCall == call.op \in CleanOps
IsCipherCall == call.op \in {"encrypt_columns", "decrypt_columns"}

\* the last call was given a table and a non-empty list of names
WellFormedCall ==
    /\ call.op # "none"
    /\ call.table.k = "table"
    /\ call.sel.k = "list"
    /\ call.sel.items # <<>>

Occurrences(items, c) == Cardinality({i \in 1..Len(items) : items[i] = c})

Rows(tbl) == IF tbl.cols = <<>> THEN {} ELSE 1..Len(tbl.cols[1].vals)

\* the per-value function of the last call on the cell the call was given
ParsedCell(c, r) == ApplyFn(call.fn, GetColumn(call.table, c)[r], call.key)

\* a selected column of the last call, named once and present in its table
SelectedOnce(c) ==
    /\ HasColumn(call.table, c)
    /\ Occurrences(call.sel.items, c) = 1

Logged(kind, c) ==
    \E i \in 1..Len(call.out.log) :
        call.out.log[i].kind = kind /\ call.out.log[i].col = c

\* C1: per-value faults are never escalated: when a clean_* operation runs
\* its parser over a present selected column, a malformed cell becomes the
\* missing marker and every other cell is replaced by its parsed value.
C1_PerValueFaultsNeverEscalated ==
    (IsCleanCall /\ WellFormedCall) =>
        /\ call.out.raised = "none"
        /\ \A i \in 1..Len(call.sel.items) :
              LET c == call.sel.items[i]
              IN  SelectedOnce(c) =>
                     /\ HasColumn(call.out.ret, c)
                     /\ \A r \in Rows(call.table) :
                           GetColumn(call.out.ret, c)[r]
                               = IF Raises(ParsedCell(c, r)) THEN NoneV
                                 ELSE ParsedCell(c, r)

\* C2: a clean_* operation on a table and a non-empty list of names leaves
\* the caller's table as it was and returns a table in which every column
\* not named holds the values it held.
C2_CopyIsolationAndFrame ==
    (IsCleanCall /\ WellFormedCall) =>
        /\ call.out.raised = "none"
        /\ call.out.caller = call.table
        /\ \A i \in 1..Len(call.table.cols) :
              LET c == call.table.cols[i]
              IN  Occurrences(call.sel.items, c.name) = 0 =>
                     /\ HasColumn(call.out.ret, c.name)
                     /\ GetColumn(call.out.ret, c.name) = c.vals

\* a clean_* call that changed a selected column and had a column to leave alone
C2_Witness ==
    /\ IsCleanCall /\ WellFormedCall
    /\ call.out.ret # call.table
    /\ \E i \in 1..Len(call.table.cols) :
          Occurrences(call.sel.items, call.table.cols[i].name) = 0

\* C7: for every public operation, a table argument that is no table or a
\* selector that is no list aborts the call with TypeError, an empty list
\* aborts it with ValueError, and no table is returned.
C7_MalformedArgumentsAreFatal ==
    call.op # "none" =>
        /\ (call.table.k # "table" \/ call.sel.k # "list") =>
              (call.out.raised = "TypeError" /\ call.out.ret = NoReturn)
        /\ (call.table.k = "table" /\ call.sel.k = "list" /\ call.sel.items = <<>>) =>
              (call.out.raised = "ValueError" /\ call.out.ret = NoReturn)

AbsentFromTable(c) == ~HasColumn(call.table, c)
IsNotFound(m) == m.kind = "not_found"

\* C8: a clean_* operation given names of absent columns completes, prints
\* one "not found" warning per such name in selector order, and applies the
\* parser to every selected column that is present.
C8_MissingColumnsAreSkipped ==
    (IsCleanCall /\ WellFormedCall) =>
        /\ call.out.raised = "none"
        /\ LET warned == SelectSeq(call.out.log, IsNotFound)
           IN  [i \in 1..Len(warned) |-> warned[i].col]
                  = SelectSeq(call.sel.items, AbsentFromTable)
        /\ \A i \in 1..Len(call.sel.items) :
              LET c == call.sel.items[i]
              IN  SelectedOnce(c) =>
                     IF \E r \in Rows(call.table) : Raises(ParsedCell(c, r))
                     THEN /\ Logged("error", c)
                          /\ GetColumn(call.out.ret, c) = GetColumn(call.table, c)
                     ELSE \A r \in Rows(call.table) :
                             GetColumn(call.out.ret, c)[r] = ParsedCell(c, r)

\* a clean_* call that named an absent column first and then changed a present one
C8_Witness ==
    /\ IsCleanCall /\ WellFormedCall
    /\ Len(call.sel.items) = 2
    /\ AbsentFromTable(call.sel.items[1])
    /\ HasColumn(call.table, call.sel.items[2])
    /\ Len(call.out.log) = 1
    /\ call.out.ret # call.table

\* C9: after any sequence of public operations every column has the row
\* count of the original table; a clean_* operation returns the column names
\* of its input in the same order, and a column it skipped holds its input
\* values.
C9_TableShape ==
    /\ \A i \in 1..Len(df.cols) : Len(df.cols[i].vals) = Len(original.cols[1].vals)
    /\ (IsCleanCall /\ call.out.raised = "none") =>
          /\ Columns(call.out.ret) = Columns(call.table)
          /\ \A i \in 1..Len(call.sel.items) :
                LET c == call.sel.items[i]
                IN  /\ AbsentFromTable(c) => ~HasColumn(call.out.ret, c)
                    /\ (SelectedOnce(c) /\ Logged("error", c)) =>
                          GetColumn(call.out.ret, c) = GetColumn(call.table, c)

\* a clean_* call, after a cipher call renamed a column, that skipped one
\* absent name and one column whose parser raised
C9_Witness ==
    /\ IsCleanCall /\ WellFormedCall
    /\ ncalls = 2
    /\ Columns(df) # Columns(original)
    /\ \E c \in OtherNames : Logged("not_found", c)
    /\ \E i \in 1..Len(df.cols) : Logged("error", df.cols[i].name)

RECURSIVE Dedup(_)
Dedup(items) ==
    IF items = <<>> THEN <<>>
    ELSE LET front == Dedup(SubSeq(items, 1, Len(items) - 1))
             last == items[Len(items)]
         IN  IF Occurrences(front, last) > 0 THEN front ELSE Append(front, last)

\* C10 as stated: for every parser, a selector that names a column more than
\* once returns the table that naming it once returns.
C10_DuplicatesAreIdempotent ==
    (IsCleanCall /\ WellFormedCall) =>
        call.out.ret
            = ProcessColumns(call.table, ListOf(Dedup(call.sel.items)), call.fn).ret

\* C10 as amended: a column named twice is parsed twice, the second time
\* from the first result; the table returned is the one naming it once
\* returns for the phone and email parsers.
C10_DuplicatesParsedPerOccurrence ==
    (IsCleanCall /\ WellFormedCall) =>
        /\ call.fn \in {"clean_phone", "clean_email"} =>
              call.out.ret
                  = ProcessColumns(call.table, ListOf(Dedup(call.sel.items)), call.fn).ret
        /\ (/\ Len(call.sel.items) = 2
            /\ call.sel.items[1] = call.sel.items[2]
            /\ HasColumn(call.table, call.sel.items[1])) =>
              LET c == call.sel.items[1]
                  Twice(r) == ApplyFn(call.fn, ParsedCell(c, r), call.key)
              IN  (\A r \in Rows(call.table) :
                      ~Raises(ParsedCell(c, r)) /\ ~Raises(Twice(r))) =>
                  \A r \in Rows(call.table) :
                      GetColumn(call.out.ret, c)[r] = Twice(r)

\* a phone column named twice, and parsed to digits
C10_Witness ==
    /\ IsCleanCall /\ WellFormedCall
    /\ call.fn = "clean_phone"
    /\ Len(call.sel.items) = 2
    /\ call.sel.items[1] = call.sel.items[2]
    /\ HasColumn(call.table, call.sel.items[1])
    /\ \E r \in Rows(call.table) :
          /\ GetColumn(call.out.ret, call.sel.items[1])[r].k = "str"
          /\ GetColumn(call.out.ret, call.sel.items[1])[r]
                # GetColumn(call.table, call.sel.items[1])[r]

\* C6: for a selected name present in the table, encrypt_columns returns a
\* column <name>_encrypted and decrypt_columns a column <name> without its
\* trailing _encrypted suffix, holding the transformed values row by row,
\* and the source column is gone.  Stated for one selected name, which for
\* decrypt_columns ends with the suffix.
C6_CipherColumnHandling ==
    (/\ IsCipherCall
     /\ call.out.raised = "none"
     /\ Len(call.sel.items) = 1
     /\ HasColumn(call.table, call.sel.items[1])
     /\ (call.op = "decrypt_columns" => EndsWith(call.sel.items[1], EncryptedSuffix))) =>
        LET c == call.sel.items[1]
            target == IF call.op = "encrypt_columns" THEN c \o EncryptedSuffix
                      ELSE SubSeq(c, 1, Len(c) - Len(EncryptedSuffix))
        IN  /\ HasColumn(call.out.ret, target)
            /\ \A r \in Rows(call.table) :
                  GetColumn(call.out.ret, target)[r] = ParsedCell(c, r)
            /\ ~HasColumn(call.out.ret, c)

Printable(s) == \A i \in 1..Len(s) : s[i] >= 32 /\ s[i] <= 126

\* C3: decrypting, with the same key, the encryption of a printable-ASCII
\* text gives the text back.
C3_CipherRoundTrip ==
    \A i \in 2..Len(trail) :
        (/\ trail[i].fn = "decrypt"
         /\ trail[i - 1].fn = "encrypt"
         /\ trail[i].key = trail[i - 1].key
         /\ trail[i - 1].in.k = "str"
         /\ Printable(trail[i - 1].in.s)) =>
            trail[i].out = trail[i - 1].in

\* a round trip whose shift wrapped around the symbol range
C3_Witness ==
    /\ Len(trail) = 2
    /\ trail[2].fn = "decrypt"
    /\ trail[1].fn = "encrypt"
    /\ trail[2].key = trail[1].key
    /\ NumericKey(trail[1].key) > CipherMod
    /\ trail[1].in.k = "str"
    /\ Printable(trail[1].in.s)
    /\ \E j \in 1..Len(trail[1].in.s) : trail[1].out.s[j] < trail[1].in.s[j]
    /\ \E j \in 1..Len(trail[1].in.s) : trail[1].out.s[j] > trail[1].in.s[j]

\* C4 as stated: the URL parser removes at most one prefix.
C4_AtMostOnePrefixStripped ==
    \A i \in 1..Len(trail) :
        trail[i].fn = "clean_url" => Len(trail[i].removed) <= 1

RECURSIVE PrefixLengths(_)
PrefixLengths(removed) ==
    IF removed = <<>> THEN 0
    ELSE Len(url_prefixes[Head(removed)]) + PrefixLengths(Tail(removed))

\* the prefixes removed that come before prefix i in the list
Before(removed, i) ==
    LET Earlier(j) == j < i
    IN  SelectSeq(removed, Earlier)

\* C4 as amended: the URL parser tries each prefix of the list once, in list
\* order, on the text left by the prefixes before it, and removes every one
\* that matches.
C4_EveryMatchingPrefixStripped ==
    \A i \in 1..Len(trail) :
        (trail[i].fn = "clean_url" /\ ~IsNa(trail[i].in)) =>
            LET text == Lower(Strip(Str(trail[i].in)))
                removed == trail[i].removed
                Left(n) == Drop(text, PrefixLengths(Before(removed, n)))
                rest == Drop(text, PrefixLengths(removed))
            IN  /\ \A j \in 1..(Len(removed) - 1) : removed[j] < removed[j + 1]
                /\ \A n \in 1..Len(url_prefixes) :
                      StartsWith(Left(n), url_prefixes[n])
                          <=> (\E j \in 1..Len(removed) : removed[j] = n)
                /\ trail[i].out = IF rest = <<>> THEN NoneV
                                  ELSE StrV(RStripSlash(rest))

\* a URL that lost "http://" and then "www."
C4_Witness ==
    \E i \in 1..Len(trail) :
        /\ trail[i].fn = "clean_url"
        /\ trail[i].removed = <<1, 3>>
        /\ trail[i].out.k = "str"
        /\ trail[i].out.s # <<>>

\* C5: the URL parser never returns an empty string.
C5_UrlNeverEmpty ==
    \A i \in 1..Len(trail) :
        trail[i].fn = "clean_url" => trail[i].out # StrV(<<>>)
====
